---- MODULE Spec2Model ----
(***************************************************************************)
(* wecom-agent: the access-token cache of WecomAgent (src/src/lib.rs) and  *)
(* the send protocol built on it, called from concurrent tasks.            *)
(*                                                                         *)
(* Time is counted in ticks, TicksPerSec ticks to the second, so that the  *)
(* truncation of Duration::as_secs is visible.  The wall clock only moves  *)
(* forward here; the Err branch of SystemTime::duration_since is modelled  *)
(* in the operators but no behaviour of this model sets the clock back.    *)
(* A panic unwinds the panicking task only (the default build profile):    *)
(* tokio's RwLock guard is dropped and the other tasks go on.              *)
(***************************************************************************)
EXTENDS Integers, Sequences, FiniteSets, TLC

\* ---------------------------------------------------------------- bounds
TicksPerSec == 2
\* Seconds since UNIX_EPOCH at which the agent is constructed.
StartTime == 20000
\* Number of times the clock is advanced in one behaviour.
MaxTicks == 1
\* Number of public calls (send, update_token) started in one behaviour.
MaxCalls == 3
\* The same, in the behaviours explored under fair scheduling.
LiveCalls == 2
\* Length of the lists of names given to to_users.
MaxNames == 2

\* ------------------------------------------------------- program constants
DefaultLifetime == 7200
SendBackoff == 10
ProactiveWindow == 300
INVALID_TOKEN == 40014
RATE_LIMITED == -9
DefaultDuplicateCheckInterval == 1800
BUILD_ERROR == -999

\* ---------------------------------------------------------------- inputs
\* Recipient names: the empty name, a plain name, a name that starts with the
\* separator.
Names == {<<>>, <<"a">>, <<"|", "b">>}
\* The Vec<&str> given to to_users: up to MaxNames names.
NameLists == UNION {[1..n -> Names] : n \in 0..MaxNames}
\* The Vec<&str> given to to_groups and to to_tags.
GroupLists == {<<<<"a">>, <<"b">>>>, <<<<>>, <<"a">>>>}
TagLists == {<<<<"b">>>>, <<<<"|", "b">>, <<"a">>>>}
AgentIds == {1}
\* Values given to with_safe, with_enable_id_trans, with_enable_duplicate_check.
Flags == {0, 1}
\* Values given to with_duplicate_check_interval.
Intervals == {800, 1800}
\* The text of a content, and the key() of a content: that of Text, and one
\* that is also a field of the payload.
Hello == <<"h", "i">>
Keys == {"text", "safe"}
Tasks == {1, 2}
\* The token endpoint hands out a new access_token string with every success:
\* 1, 2, ...; 0 stands for None.
NoToken == 0
\* expires_in values (seconds) of the token endpoint.
Lifetimes == {7200}
\* backoff_seconds passed by direct callers of update_token.
Backoffs == {0, 10}
\* errcode values of the token endpoint other than 0.
TokenErrcodes == {40001}
\* errcode values of the message endpoint.
SendErrcodes == {0, 40014, 60020}
\* Clock advances, in ticks.
Deltas == {TicksPerSec + 1, 10 * TicksPerSec, 7000 * TicksPerSec, 7200 * TicksPerSec}

VARIABLES
    now,            \* the latest reading of SystemTime::now(), ticks since UNIX_EPOCH
    ticks,          \* readings so far that found the clock advanced
    calls,          \* public calls started so far
    access_token,   \* WecomAgent.access_token: [value, timestamp, lifetime]
    writer,         \* task holding the write lock of the RwLock, 0 if none
    pc,             \* per task: position in send / update_token
    backoff,        \* per task: backoff_seconds of the update_token in progress
    ret,            \* per task: who called update_token: "top", "pre", "forced"
    url,            \* per task: token formatted into the send URL
    result,         \* per task: value returned by the finished call
    seen,           \* per task: credential and time read by send's freshness check
    ev,             \* per task: what the call in progress has done, in order
    issued,         \* tokens the token endpoint has handed out so far
    lastStored,     \* last token-endpoint success: [tok, at, life], life in seconds
    builder,        \* a MessageBuilder: the fields of the struct
    given,          \* the arguments the builder's methods were last called with
    msg             \* what MessageBuilder::build returned

vars == <<now, ticks, calls, access_token, writer, pc, backoff, ret, url,
          result, seen, ev, issued, lastStored, builder, given, msg>>

\* ------------------------------------------------------------ AccessToken
DurationErr == -1

\* SystemTime::duration_since: Err when `earlier` is later than self.
duration_since(t, earlier) == IF t >= earlier THEN t - earlier ELSE DurationErr

from_secs(s) == s * TicksPerSec

as_secs(d) == d \div TicksPerSec

AccessToken_default ==
    [value |-> NoToken, timestamp |-> 0, lifetime |-> from_secs(DefaultLifetime)]

\* update, with the timestamp left at the epoch.
update_value_only(token, timestamp, lifetime) ==
    [value |-> token, timestamp |-> 0, lifetime |-> lifetime]

update(token, timestamp, lifetime) ==
    [value |-> token, timestamp |-> timestamp, lifetime |-> lifetime]

\* expired, with the comparison made strict.
expired_strict(tok, t) ==
    LET duration == duration_since(t, tok.timestamp)
    IN  IF duration # DurationErr THEN duration > tok.lifetime ELSE FALSE

expired(tok, t) ==
    LET duration == duration_since(t, tok.timestamp)
    IN  IF duration # DurationErr THEN duration >= tok.lifetime ELSE FALSE

\* "true", "false", or "panic": Duration's `-` panics when the result would be
\* negative ("overflow when subtracting durations").
expire_in(tok, t, n) ==
    LET duration == duration_since(t, tok.timestamp)
    IN  IF duration = DurationErr THEN "false"
        ELSE IF duration < tok.lifetime THEN "panic"
        ELSE IF duration - tok.lifetime < from_secs(n) THEN "true"
        ELSE "false"

\* ------------------------------------------------------------- results
NoResult == [kind |-> "none", code |-> 0, secs |-> 0]
Ok == [kind |-> "ok", code |-> 0, secs |-> 0]
RateLimited(secs) == [kind |-> "error", code |-> RATE_LIMITED, secs |-> secs]
VendorRejected(code) == [kind |-> "error", code |-> code, secs |-> 0]
TransportError == [kind |-> "transport", code |-> 0, secs |-> 0]
SystemTimeError == [kind |-> "time", code |-> 0, secs |-> 0]
Response(code) == [kind |-> "response", code |-> code, secs |-> 0]
Panic == [kind |-> "panic", code |-> 0, secs |-> 0]

\* One step of a call, as recorded in ev:
\*   "check"        the backoff check of update_token: tok the backoff, code the
\*                  whole seconds since the last update
\*   "limited"      update_token returned RateLimited: code the seconds
\*   "fetch"        a token request was issued: tok the backoff, code the time
\*   "stored"       the token endpoint answered errcode 0 and tok was stored:
\*                  code its expires_in
\*   "rejected"     the token endpoint answered errcode code
\*   "fetch_failed" the token request failed in transport
\*   "post"         a POST was issued with tok in its URL
\*   "resp"         the POST was answered with errcode code
\*   "post_failed"  the POST failed in transport
Event(e, tok, code) == [e |-> e, tok |-> tok, code |-> code]

NoSeen == [value |-> NoToken, timestamp |-> 0, lifetime |-> 0, at |-> 0]

\* --------------------------------------------------------- MessageBuilder
\* Strings are sequences of characters.  Option<String> and Option<usize>:
None == [is_some |-> FALSE, s |-> <<>>, n |-> 0]
SomeString(s) == [is_some |-> TRUE, s |-> s, n |-> 0]
SomeNumber(n) == [is_some |-> TRUE, s |-> <<>>, n |-> n]

\* serde_json values: a number, a string, or the object {"content": s} that a
\* Text serializes to.
JsonNumber(n) == [t |-> "number", n |-> n, s |-> <<>>]
JsonString(s) == [t |-> "string", n |-> 0, s |-> s]
JsonContent(s) == [t |-> "object", n |-> 0, s |-> s]

MessageType ==
    {"Text", "Image", "Audio", "Video", "File", "TextCard", "News", "Markdown"}

MessageBuilder_default ==
    [users |-> None, groups |-> None, tags |-> None, agent_id |-> None,
     safe |-> 0, enable_id_trans |-> 0, enable_duplicate_check |-> 0,
     duplicate_check_interval |-> DefaultDuplicateCheckInterval]

\* iter().fold("".to_string(), |acc, &u| format!("{acc}|{u}"))
RECURSIVE fold(_)
fold(names) ==
    IF names = <<>> THEN <<>>
    ELSE fold(SubSeq(names, 1, Len(names) - 1)) \o <<"|">> \o names[Len(names)]

\* str::trim_start_matches(c): every leading c is removed.
RECURSIVE trim_start_matches(_, _)
trim_start_matches(s, c) ==
    IF s # <<>> /\ s[1] = c THEN trim_start_matches(Tail(s), c) ELSE s

\* join_names, without the trimming.
join_names_untrimmed(names) == fold(names)

\* The string that to_users, to_groups and to_tags store.
join_names(names) == trim_start_matches(fold(names), "|")

to_users(self, users) == [self EXCEPT !.users = SomeString(join_names(users))]

to_groups(self, groups) == [self EXCEPT !.groups = SomeString(join_names(groups))]

to_tags(self, tags) == [self EXCEPT !.tags = SomeString(join_names(tags))]

from_agent(self, agent_id) == [self EXCEPT !.agent_id = SomeNumber(agent_id)]

with_safe(self, safe) == [self EXCEPT !.safe = safe]

with_enable_id_trans(self, enable_id_trans) ==
    [self EXCEPT !.enable_id_trans = enable_id_trans]

with_enable_duplicate_check(self, enable_duplicate_check) ==
    [self EXCEPT !.enable_duplicate_check = enable_duplicate_check]

with_duplicate_check_interval(self, duplicate_check_interval) ==
    [self EXCEPT !.duplicate_check_interval = duplicate_check_interval]

\* The match on content.msg_type() in build.
msgtype(t) ==
    CASE t = "Audio" -> "voice"
      [] t = "File" -> "file"
      [] t = "Image" -> "image"
      [] t = "Markdown" -> "markdown"
      [] t = "News" -> "news"
      [] t = "Text" -> "text"
      [] t = "TextCard" -> "textcard"
      [] t = "Video" -> "video"

unwrap_or(o, default) == IF o.is_some THEN o.s ELSE default

\* serde_json's Map::insert: the value under an existing key is replaced.
insert(j, key, value) ==
    [k \in DOMAIN j \cup {key} |-> IF k = key THEN value ELSE j[k]]

NoJson == [k \in {} |-> JsonNumber(0)]
BuildErr(text) == [is_ok |-> FALSE, code |-> BUILD_ERROR, text |-> text, j |-> NoJson]
BuildOk(j) == [is_ok |-> TRUE, code |-> 0, text |-> "", j |-> j]

\* A content: its msg_type(), its key() and the text it serializes.
Content(msg_type, key, content) ==
    [msg_type |-> msg_type, key |-> key, content |-> content]

build(self, content) ==
    IF ~self.users.is_some /\ ~self.groups.is_some /\ ~self.tags.is_some
    THEN BuildErr("recipients")
    ELSE IF ~self.agent_id.is_some THEN BuildErr("agent_id")
    ELSE LET empty_string == <<>>
             j == [k \in {"touser", "toparty", "totag", "msgtype", "agentid",
                          "safe", "enable_id_trans", "enable_duplicate_check",
                          "duplicate_check_interval"} |->
                     CASE k = "touser" -> JsonString(unwrap_or(self.users, empty_string))
                       [] k = "toparty" -> JsonString(unwrap_or(self.groups, empty_string))
                       [] k = "totag" -> JsonString(unwrap_or(self.tags, empty_string))
                       [] k = "msgtype" -> JsonString(msgtype(content.msg_type))
                       [] k = "agentid" -> JsonNumber(self.agent_id.n)
                       [] k = "safe" -> JsonNumber(self.safe)
                       [] k = "enable_id_trans" -> JsonNumber(self.enable_id_trans)
                       [] k = "enable_duplicate_check" ->
                              JsonNumber(self.enable_duplicate_check)
                       [] k = "duplicate_check_interval" ->
                              JsonNumber(self.duplicate_check_interval)]
         IN  BuildOk(insert(j, content.key, JsonContent(content.content)))

\* What the builder was given: the argument of the last call of each method.
\* Nothing was given yet:
NoGiven ==
    [users |-> <<>>, groups |-> <<>>, tags |-> <<>>, agent_id |-> 0, safe |-> 0,
     enable_id_trans |-> 0, enable_duplicate_check |-> 0,
     duplicate_check_interval |-> DefaultDuplicateCheckInterval,
     content |-> Content("Text", "text", <<>>)]
\* build was not called yet.
NoMsg == [is_ok |-> FALSE, code |-> 0, text |-> "", j |-> NoJson]

\* ------------------------------------------------------------------ Init
Init ==
    /\ now = from_secs(StartTime)
    /\ ticks = 0
    /\ calls = 0
    /\ access_token = AccessToken_default
    /\ writer = 0
    /\ pc = [t \in Tasks |-> "idle"]
    /\ backoff = [t \in Tasks |-> 0]
    /\ ret = [t \in Tasks |-> "top"]
    /\ url = [t \in Tasks |-> NoToken]
    /\ result = [t \in Tasks |-> NoResult]
    /\ seen = [t \in Tasks |-> NoSeen]
    /\ ev = [t \in Tasks |-> <<>>]
    /\ issued = 0
    /\ lastStored = [tok |-> NoToken, at |-> 0, life |-> 0]
    /\ builder = MessageBuilder_default
    /\ given = NoGiven
    /\ msg = NoMsg

\* ------------------------------------------------------------- the clock
\* What SystemTime::now() may return: the previous reading, or a later time.
Readings == {now} \cup (IF ticks < MaxTicks THEN {now + d : d \in Deltas} ELSE {})

\* SystemTime::now() returns n.
Clock(n) ==
    /\ now' = n
    /\ ticks' = IF n = now THEN ticks ELSE ticks + 1

\* ----------------------------------------------------------- update_token
\* The URL of the second POST: `&url`, the one composed for the first.
retry_url(t) == url[t]

\* The backoff test, with the bound included.
too_frequent_inclusive(seconds_since_last_update, backoff_seconds) ==
    seconds_since_last_update <= backoff_seconds

\* The backoff test of update_token.
too_frequent(seconds_since_last_update, backoff_seconds) ==
    seconds_since_last_update < backoff_seconds

\* AfterUpdate, with send going on to its POST whatever the refresh returned.
AfterUpdate_ignoring_error(t, r, res, done) ==
    IF r = "pre" THEN
        /\ pc' = [pc EXCEPT ![t] = "s_url"]
        /\ ev' = [ev EXCEPT ![t] = done]
        /\ result' = [result EXCEPT ![t] = NoResult]
    ELSE IF r = "forced" THEN
        /\ pc' = [pc EXCEPT ![t] = "s_post2"]
        /\ ev' = [ev EXCEPT ![t] = Append(done, Event("post", retry_url(t), 0))]
        /\ result' = [result EXCEPT ![t] = NoResult]
    ELSE
        /\ pc' = [pc EXCEPT ![t] = "done"]
        /\ ev' = [ev EXCEPT ![t] = done]
        /\ result' = [result EXCEPT ![t] = res]

\* AfterUpdate, with send composing the URL after a refresh that returned
\* RateLimited or a transport error.
AfterUpdate_tolerant(t, r, res, done) ==
    IF r = "pre" /\ (res = Ok \/ res.kind \in {"transport", "time"}
                              \/ res.code = RATE_LIMITED) THEN
        /\ pc' = [pc EXCEPT ![t] = "s_url"]
        /\ ev' = [ev EXCEPT ![t] = done]
        /\ result' = [result EXCEPT ![t] = NoResult]
    ELSE IF res = Ok /\ r = "forced" THEN
        /\ pc' = [pc EXCEPT ![t] = "s_post2"]
        /\ ev' = [ev EXCEPT ![t] = Append(done, Event("post", retry_url(t), 0))]
        /\ result' = [result EXCEPT ![t] = NoResult]
    ELSE
        /\ pc' = [pc EXCEPT ![t] = "done"]
        /\ ev' = [ev EXCEPT ![t] = done]
        /\ result' = [result EXCEPT ![t] = res]

\* What the caller r of update_token does with its result res, `done` being
\* the record of the call so far: a direct caller ("top") gets the result;
\* send returns an Err, and on Ok goes on to compose the URL ("pre", before the
\* first POST) or to the second POST ("forced"), which is made with the URL
\* composed for the first.
AfterUpdate(t, r, res, done) ==
    IF res = Ok /\ r = "pre" THEN
        /\ pc' = [pc EXCEPT ![t] = "s_url"]
        /\ ev' = [ev EXCEPT ![t] = done]
        /\ result' = [result EXCEPT ![t] = NoResult]
    ELSE IF res = Ok /\ r = "forced" THEN
        /\ pc' = [pc EXCEPT ![t] = "s_post2"]
        /\ ev' = [ev EXCEPT ![t] = Append(done, Event("post", retry_url(t), 0))]
        /\ result' = [result EXCEPT ![t] = NoResult]
    ELSE
        /\ pc' = [pc EXCEPT ![t] = "done"]
        /\ ev' = [ev EXCEPT ![t] = done]
        /\ result' = [result EXCEPT ![t] = res]

\* BeginUpdate, without waiting for the write lock.
BeginUpdate_unlocked(t, b, r, done) ==
    /\ backoff' = [backoff EXCEPT ![t] = b]
    /\ ret' = [ret EXCEPT ![t] = r]
    /\ \E n \in Readings :
         LET duration == duration_since(n, access_token.timestamp)
             seconds_since_last_update == as_secs(duration)
             checked == Append(done, Event("check", b, seconds_since_last_update))
         IN  /\ Clock(n)
             /\ IF duration = DurationErr THEN
                    /\ AfterUpdate(t, r, SystemTimeError, done)
                    /\ UNCHANGED writer
                ELSE IF too_frequent(seconds_since_last_update, b) THEN
                    /\ AfterUpdate(t, r, RateLimited(seconds_since_last_update),
                                   Append(checked,
                                          Event("limited", 0, seconds_since_last_update)))
                    /\ UNCHANGED writer
                ELSE
                    /\ writer' = t
                    /\ pc' = [pc EXCEPT ![t] = "u_fetch"]
                    /\ ev' = [ev EXCEPT ![t] = Append(checked, Event("fetch", b, n))]
                    /\ result' = [result EXCEPT ![t] = NoResult]
    /\ UNCHANGED <<access_token, issued, lastStored, builder, given, msg>>

\* BeginUpdate, with the backoff measured against the timestamp that the
\* caller's send read before it waited for the lock.
BeginUpdate_stale_check(t, b, r, done) ==
    /\ writer = 0
    /\ backoff' = [backoff EXCEPT ![t] = b]
    /\ ret' = [ret EXCEPT ![t] = r]
    /\ \E n \in Readings :
         LET stale == IF seen[t] # NoSeen THEN seen[t].timestamp
                      ELSE access_token.timestamp
             duration == duration_since(n, stale)
             seconds_since_last_update == as_secs(duration)
             checked == Append(done, Event("check", b, seconds_since_last_update))
         IN  /\ Clock(n)
             /\ IF duration = DurationErr THEN
                    /\ AfterUpdate(t, r, SystemTimeError, done)
                    /\ UNCHANGED writer
                ELSE IF too_frequent(seconds_since_last_update, b) THEN
                    /\ AfterUpdate(t, r, RateLimited(seconds_since_last_update),
                                   Append(checked,
                                          Event("limited", 0, seconds_since_last_update)))
                    /\ UNCHANGED writer
                ELSE
                    /\ writer' = t
                    /\ pc' = [pc EXCEPT ![t] = "u_fetch"]
                    /\ ev' = [ev EXCEPT ![t] = Append(checked, Event("fetch", b, n))]
                    /\ result' = [result EXCEPT ![t] = NoResult]
    /\ UNCHANGED <<access_token, issued, lastStored, builder, given, msg>>

\* update_token(b) called by r, up to the token request: the write lock is
\* acquired and the backoff check made; the request is issued when the check
\* passes, and the lock stays held while it is in flight.
BeginUpdate(t, b, r, done) ==
    /\ writer = 0
    /\ backoff' = [backoff EXCEPT ![t] = b]
    /\ ret' = [ret EXCEPT ![t] = r]
    /\ \E n \in Readings :
         LET duration == duration_since(n, access_token.timestamp)
             seconds_since_last_update == as_secs(duration)
             checked == Append(done, Event("check", b, seconds_since_last_update))
         IN  /\ Clock(n)
             /\ IF duration = DurationErr THEN
                    /\ AfterUpdate(t, r, SystemTimeError, done)
                    /\ UNCHANGED writer
                ELSE IF too_frequent(seconds_since_last_update, b) THEN
                    /\ AfterUpdate(t, r, RateLimited(seconds_since_last_update),
                                   Append(checked,
                                          Event("limited", 0, seconds_since_last_update)))
                    /\ UNCHANGED writer
                ELSE
                    /\ writer' = t
                    /\ pc' = [pc EXCEPT ![t] = "u_fetch"]
                    /\ ev' = [ev EXCEPT ![t] = Append(checked, Event("fetch", b, n))]
                    /\ result' = [result EXCEPT ![t] = NoResult]
    /\ UNCHANGED <<access_token, issued, lastStored, builder, given, msg>>

\* A task that is in no call; the record of its last call is kept until it
\* starts the next one.
Free(t) == pc[t] \in {"idle", "done", "panicked"}

\* A task calls agent.update_token(b).
CallUpdate(t) ==
    /\ Free(t)
    /\ calls < MaxCalls
    /\ calls' = calls + 1
    /\ url' = [url EXCEPT ![t] = NoToken]
    /\ seen' = [seen EXCEPT ![t] = NoSeen]
    /\ \E b \in Backoffs : BeginUpdate(t, b, "top", <<>>)

\* send calls update_token(10), before the first POST or after a 40014.
UpdateLock(t) ==
    /\ pc[t] = "u_lock"
    /\ BeginUpdate(t, backoff[t], ret[t], ev[t])
    /\ UNCHANGED <<calls, url, seen>>

\* reqwest::get or the JSON decoding fails.
FetchTransportError(t) ==
    /\ pc[t] = "u_fetch"
    /\ writer = t
    /\ writer' = 0
    /\ AfterUpdate(t, ret[t], TransportError,
                   Append(ev[t], Event("fetch_failed", 0, 0)))
    /\ UNCHANGED <<now, ticks, calls, access_token, backoff, ret, url, seen,
                   issued, lastStored, builder, given, msg>>

\* FetchRejected, with the timestamp written although the fetch was rejected.
FetchRejected_touching(t) ==
    /\ pc[t] = "u_fetch"
    /\ writer = t
    /\ writer' = 0
    /\ access_token' = [access_token EXCEPT !.timestamp = now]
    /\ \E code \in TokenErrcodes :
          AfterUpdate(t, ret[t], VendorRejected(code),
                      Append(ev[t], Event("rejected", 0, code)))
    /\ UNCHANGED <<now, ticks, calls, backoff, ret, url, seen, issued, lastStored, builder, given, msg>>

\* The token endpoint answers with a non-zero errcode.
FetchRejected(t) ==
    /\ pc[t] = "u_fetch"
    /\ writer = t
    /\ writer' = 0
    /\ \E code \in TokenErrcodes :
          AfterUpdate(t, ret[t], VendorRejected(code),
                      Append(ev[t], Event("rejected", 0, code)))
    /\ UNCHANGED <<now, ticks, calls, access_token, backoff, ret, url, seen,
                   issued, lastStored, builder, given, msg>>

\* The token endpoint answers errcode 0 with a token and its expires_in; the
\* credential is updated with the time read after the answer.
FetchStored(t) ==
    /\ pc[t] = "u_fetch"
    /\ writer = t
    /\ writer' = 0
    /\ \E expires_in \in Lifetimes, n \in Readings :
        LET tok == issued + 1
        IN  /\ Clock(n)
            /\ issued' = tok
            /\ access_token' = update(tok, n, from_secs(expires_in))
            /\ lastStored' = [tok |-> tok, at |-> n, life |-> expires_in]
            /\ AfterUpdate(t, ret[t], Ok,
                           Append(ev[t], Event("stored", tok, expires_in)))
    /\ UNCHANGED <<calls, backoff, ret, url, seen, builder, given, msg>>

\* ------------------------------------------------------------------- send
\* token_should_update, without the test for an absent value.
token_should_update_no_none(tok, t) ==
    IF tok.value = NoToken THEN "false"
    ELSE LET soon == expire_in(tok, t, ProactiveWindow)
         IN  IF soon = "panic" THEN "panic"
             ELSE IF soon = "true" THEN "true"
             ELSE IF expired(tok, t) THEN "true"
             ELSE "false"

\* token_should_update, with the result of the two expiry tests dropped.
token_should_update_no_expiry(tok, t) ==
    IF tok.value = NoToken THEN "true"
    ELSE LET soon == expire_in(tok, t, ProactiveWindow)
         IN  IF soon = "panic" THEN "panic" ELSE "false"

\* token_should_update, evaluated left to right under the read lock:
\* value().is_none() || expire_in(300) || expired().
token_should_update(tok, t) ==
    IF tok.value = NoToken THEN "true"
    ELSE LET soon == expire_in(tok, t, ProactiveWindow)
         IN  IF soon = "panic" THEN "panic"
             ELSE IF soon = "true" THEN "true"
             ELSE IF expired(tok, t) THEN "true"
             ELSE "false"

\* A task calls agent.send(msg): the freshness check, under the read lock.
CallSend(t) ==
    /\ Free(t)
    /\ calls < MaxCalls
    /\ calls' = calls + 1
    /\ writer = 0
    /\ url' = [url EXCEPT ![t] = NoToken]
    /\ ev' = [ev EXCEPT ![t] = <<>>]
    /\ \E n \in Readings :
         LET should == token_should_update(access_token, n)
         IN  /\ Clock(n)
             /\ seen' = [seen EXCEPT ![t] = [value |-> access_token.value,
                                              timestamp |-> access_token.timestamp,
                                              lifetime |-> access_token.lifetime,
                                              at |-> n]]
             /\ IF should = "panic" THEN
                    /\ pc' = [pc EXCEPT ![t] = "panicked"]
                    /\ result' = [result EXCEPT ![t] = Panic]
                    /\ backoff' = [backoff EXCEPT ![t] = 0]
                    /\ ret' = [ret EXCEPT ![t] = "top"]
                ELSE IF should = "true" THEN
                    /\ pc' = [pc EXCEPT ![t] = "u_lock"]
                    /\ result' = [result EXCEPT ![t] = NoResult]
                    /\ backoff' = [backoff EXCEPT ![t] = SendBackoff]
                    /\ ret' = [ret EXCEPT ![t] = "pre"]
                ELSE
                    /\ pc' = [pc EXCEPT ![t] = "s_url"]
                    /\ result' = [result EXCEPT ![t] = NoResult]
                    /\ backoff' = [backoff EXCEPT ![t] = 0]
                    /\ ret' = [ret EXCEPT ![t] = "top"]
    /\ UNCHANGED <<access_token, writer, issued, lastStored, builder, given, msg>>

\* The URL is composed from the cached value under the read lock and the
\* first POST is issued.
SendUrl(t) ==
    /\ pc[t] = "s_url"
    /\ writer = 0
    /\ IF access_token.value = NoToken THEN
           /\ pc' = [pc EXCEPT ![t] = "panicked"]
           /\ result' = [result EXCEPT ![t] = Panic]
           /\ UNCHANGED <<url, ev>>
       ELSE
           /\ url' = [url EXCEPT ![t] = access_token.value]
           /\ pc' = [pc EXCEPT ![t] = "s_post1"]
           /\ ev' = [ev EXCEPT ![t] = Append(@, Event("post", access_token.value, 0))]
           /\ UNCHANGED result
    /\ UNCHANGED <<now, ticks, calls, access_token, writer, backoff, ret, seen,
                   issued, lastStored, builder, given, msg>>

\* PostTransportError, with the failed POST issued again.
PostTransportError_reposting(t) ==
    /\ pc[t] \in {"s_post1", "s_post2"}
    /\ pc' = pc
    /\ result' = result
    /\ ev' = [ev EXCEPT ![t] = Append(Append(@, Event("post_failed", url[t], 0)),
                                      Event("post", url[t], 0))]
    /\ UNCHANGED <<now, ticks, calls, access_token, writer, backoff, ret, url,
                   seen, issued, lastStored, builder, given, msg>>

\* A POST fails in transport or in decoding the response: `?` returns it.
PostTransportError(t) ==
    /\ pc[t] \in {"s_post1", "s_post2"}
    /\ pc' = [pc EXCEPT ![t] = "done"]
    /\ result' = [result EXCEPT ![t] = TransportError]
    /\ ev' = [ev EXCEPT ![t] = Append(@, Event("post_failed", url[t], 0))]
    /\ UNCHANGED <<now, ticks, calls, access_token, writer, backoff, ret, url,
                   seen, issued, lastStored, builder, given, msg>>

\* Post1Response, with every non-zero errcode taken for the invalid-token one.
Post1Response_retry_on_error(t) ==
    /\ pc[t] = "s_post1"
    /\ \E code \in SendErrcodes :
          /\ ev' = [ev EXCEPT ![t] = Append(@, Event("resp", url[t], code))]
          /\ IF code # 0 THEN
                 /\ pc' = [pc EXCEPT ![t] = "u_lock"]
                 /\ backoff' = [backoff EXCEPT ![t] = SendBackoff]
                 /\ ret' = [ret EXCEPT ![t] = "forced"]
                 /\ UNCHANGED result
             ELSE
                 /\ pc' = [pc EXCEPT ![t] = "done"]
                 /\ result' = [result EXCEPT ![t] = Response(code)]
                 /\ UNCHANGED <<backoff, ret>>
    /\ UNCHANGED <<now, ticks, calls, access_token, writer, url, seen, issued,
                   lastStored, builder, given, msg>>

\* The first POST is answered: errcode 40014 starts the forced refresh, any
\* other response is returned.
Post1Response(t) ==
    /\ pc[t] = "s_post1"
    /\ \E code \in SendErrcodes :
          /\ ev' = [ev EXCEPT ![t] = Append(@, Event("resp", url[t], code))]
          /\ IF code = INVALID_TOKEN THEN
                 /\ pc' = [pc EXCEPT ![t] = "u_lock"]
                 /\ backoff' = [backoff EXCEPT ![t] = SendBackoff]
                 /\ ret' = [ret EXCEPT ![t] = "forced"]
                 /\ UNCHANGED result
             ELSE
                 /\ pc' = [pc EXCEPT ![t] = "done"]
                 /\ result' = [result EXCEPT ![t] = Response(code)]
                 /\ UNCHANGED <<backoff, ret>>
    /\ UNCHANGED <<now, ticks, calls, access_token, writer, url, seen, issued,
                   lastStored, builder, given, msg>>

\* Post2Response, with a second 40014 starting another forced refresh.
Post2Response_retry_again(t) ==
    /\ pc[t] = "s_post2"
    /\ \E code \in SendErrcodes :
          /\ ev' = [ev EXCEPT ![t] = Append(@, Event("resp", url[t], code))]
          /\ IF code = INVALID_TOKEN THEN
                 /\ pc' = [pc EXCEPT ![t] = "u_lock"]
                 /\ UNCHANGED result
             ELSE
                 /\ pc' = [pc EXCEPT ![t] = "done"]
                 /\ result' = [result EXCEPT ![t] = Response(code)]
    /\ UNCHANGED <<now, ticks, calls, access_token, writer, backoff, ret, url,
                   seen, issued, lastStored, builder, given, msg>>

\* The second POST is answered: the response is returned whatever its errcode.
Post2Response(t) ==
    /\ pc[t] = "s_post2"
    /\ \E code \in SendErrcodes :
          /\ ev' = [ev EXCEPT ![t] = Append(@, Event("resp", url[t], code))]
          /\ result' = [result EXCEPT ![t] = Response(code)]
    /\ pc' = [pc EXCEPT ![t] = "done"]
    /\ UNCHANGED <<now, ticks, calls, access_token, writer, backoff, ret, url,
                   seen, issued, lastStored, builder, given, msg>>

\* ------------------------------------------------------------------- Next
Next ==
    \E t \in Tasks :
        \/ CallSend(t)
        \/ CallUpdate(t)
        \/ UpdateLock(t)
        \/ FetchTransportError(t)
        \/ FetchRejected(t)
        \/ FetchStored(t)
        \/ SendUrl(t)
        \/ PostTransportError(t)
        \/ Post1Response(t)
        \/ Post2Response(t)

Spec == Init /\ [][Next]_vars

\* ------------------------------------------------------------- scheduling
\* A step of a call in progress: the lock is granted (tokio's RwLock queues its
\* waiters fairly) or a network call returns.
InCall(t) ==
    \/ UpdateLock(t)
    \/ FetchTransportError(t)
    \/ FetchRejected(t)
    \/ FetchStored(t)
    \/ SendUrl(t)
    \/ PostTransportError(t)
    \/ Post1Response(t)
    \/ Post2Response(t)

\* The behaviours under fair scheduling are explored with LiveCalls calls.
FairNext ==
    \E t \in Tasks :
        \/ calls < LiveCalls /\ CallSend(t)
        \/ calls < LiveCalls /\ CallUpdate(t)
        \/ InCall(t)

\* Every call in progress is eventually resumed; nothing obliges a task to
\* start a call.
FairSpec == Init /\ [][FairNext]_vars /\ \A t \in Tasks : WF_vars(InCall(t))

\* ------------------------------------------------ MessageBuilder in use
agent_vars == <<now, ticks, calls, access_token, writer, pc, backoff, ret, url,
                result, seen, ev, issued, lastStored>>

Contents == {Content(t, k, Hello) : t \in MessageType, k \in Keys}

\* A method of the builder is called with `arg` and returns the builder `next`.
Chain(method, arg, next) ==
    /\ msg = NoMsg
    /\ builder' = next
    /\ given' = [given EXCEPT ![method] = arg]
    /\ UNCHANGED <<msg, agent_vars>>

ToUsers == \E users \in NameLists : Chain("users", users, to_users(builder, users))

ToGroups ==
    \E groups \in GroupLists : Chain("groups", groups, to_groups(builder, groups))

ToTags == \E tags \in TagLists : Chain("tags", tags, to_tags(builder, tags))

FromAgent ==
    \E agent_id \in AgentIds : Chain("agent_id", agent_id, from_agent(builder, agent_id))

WithSafe == \E safe \in Flags : Chain("safe", safe, with_safe(builder, safe))

WithEnableIdTrans ==
    \E v \in Flags : Chain("enable_id_trans", v, with_enable_id_trans(builder, v))

WithEnableDuplicateCheck ==
    \E v \in Flags :
        Chain("enable_duplicate_check", v, with_enable_duplicate_check(builder, v))

WithDuplicateCheckInterval ==
    \E v \in Intervals :
        Chain("duplicate_check_interval", v, with_duplicate_check_interval(builder, v))

\* build(content) is called, once.
Build ==
    /\ msg = NoMsg
    /\ \E content \in Contents :
          /\ msg' = build(builder, content)
          /\ given' = [given EXCEPT !.content = content]
    /\ UNCHANGED <<builder, agent_vars>>

BuilderNext ==
    \/ ToUsers
    \/ ToGroups
    \/ ToTags
    \/ FromAgent
    \/ WithSafe
    \/ WithEnableIdTrans
    \/ WithEnableDuplicateCheck
    \/ WithDuplicateCheckInterval
    \/ Build

BuilderSpec == Init /\ [][BuilderNext]_vars

\* ===================================================== reading the records
Idx(t, kind) == {i \in 1..Len(ev[t]) : ev[t][i].e = kind}
Least(S) == CHOOSE x \in S : \A y \in S : x <= y
Greatest(S) == CHOOSE x \in S : \A y \in S : x >= y
HasPost(t) == Idx(t, "post") # {}
FirstPost(t) == Least(Idx(t, "post"))
HasResp(t) == Idx(t, "resp") # {}
FirstResp(t) == Least(Idx(t, "resp"))
\* What the call did after the first POST was answered.
AfterFirstResp(t) == SubSeq(ev[t], FirstResp(t) + 1, Len(ev[t]))
CountIn(seq, kind) == Cardinality({i \in 1..Len(seq) : seq[i].e = kind})
RefreshFailures == {"limited", "rejected", "fetch_failed"}

\* The credential as send's freshness check found it, judged from the
\* definitions of the data model (value, issued_at, lifetime, now).
Checked(t) == seen[t].at # 0
SeenAge(t) == seen[t].at - seen[t].timestamp
SawAbsent(t) == Checked(t) /\ seen[t].value = NoToken
SawExpired(t) ==
    Checked(t) /\ seen[t].value # NoToken /\ SeenAge(t) >= seen[t].lifetime
SawExpiring(t) ==
    /\ Checked(t) /\ seen[t].value # NoToken /\ SeenAge(t) < seen[t].lifetime
    /\ seen[t].lifetime - SeenAge(t) < 300 * TicksPerSec
SawFresh(t) ==
    /\ Checked(t) /\ seen[t].value # NoToken /\ SeenAge(t) < seen[t].lifetime
    /\ seen[t].lifetime - SeenAge(t) >= 300 * TicksPerSec

\* The call refreshed before its first POST: backoff check with 10, one token
\* request, its success, and only then the POST.
RefreshedBeforePost(t) ==
    /\ HasPost(t)
    /\ FirstPost(t) = 4
    /\ ev[t][1].e = "check" /\ ev[t][1].tok = 10
    /\ ev[t][2].e = "fetch"
    /\ ev[t][3].e = "stored"

\* ================================================================== claims

\* C1 (as claimed): when the first POST is answered 40014 and the forced
\* refresh stores a new token T2, the retried POST is issued with T2.
C1_RetryUsesNewToken ==
    \A t \in Tasks :
        Cardinality(Idx(t, "post")) = 2 =>
            \A s \in Idx(t, "stored") :
                s > FirstPost(t) =>
                    ev[t][Greatest(Idx(t, "post"))].tok = ev[t][s].tok

\* C2 (as claimed): a send whose freshness check finds a credential that is
\* not expired and has at least 300 s left makes no token request, posts with
\* that credential and does not abort.
C2_FreshSendReusesToken ==
    \A t \in Tasks :
        SawFresh(t) =>
            /\ pc[t] # "panicked"
            /\ HasPost(t) =>
                  /\ CountIn(SubSeq(ev[t], 1, FirstPost(t)), "fetch") = 0
                  /\ ev[t][FirstPost(t)].tok = seen[t].value
            /\ pc[t] = "done" => HasPost(t)

\* C3 (as claimed): whenever the first POST is answered 40014 and the token
\* endpoint does not fail, the send makes exactly one token request after the
\* first POST and exactly one retried POST, whatever the credential's age.
C3_ForcedRefreshAlwaysFetches ==
    \A t \in Tasks :
        (/\ pc[t] = "done"
         /\ HasResp(t)
         /\ ev[t][FirstResp(t)].code = INVALID_TOKEN
         /\ CountIn(AfterFirstResp(t), "rejected") = 0
         /\ CountIn(AfterFirstResp(t), "fetch_failed") = 0)
        => /\ CountIn(AfterFirstResp(t), "fetch") = 1
           /\ Cardinality(Idx(t, "post")) = 2

\* C3 (amended): after a first POST answered 40014 the forced refresh makes its
\* backoff check with 10.  When the cached credential is then at least 10 whole
\* seconds old, exactly one token request follows and, once it is answered
\* errcode 0, exactly one retried POST; when it is younger, the refresh returns
\* RateLimited, and the send returns that error with no token request and no
\* retried POST.
C3_ForcedRefreshOnceWhenDue ==
    \A t \in Tasks :
        (HasResp(t) /\ ev[t][FirstResp(t)].code = INVALID_TOKEN
                    /\ AfterFirstResp(t) # <<>>) =>
            LET a == AfterFirstResp(t)
                secs == a[1].code
            IN  /\ a[1].e = "check" /\ a[1].tok = 10
                /\ IF secs < 10 THEN
                       /\ a = <<a[1], Event("limited", 0, secs)>>
                       /\ pc[t] = "done"
                       /\ result[t] = RateLimited(secs)
                       /\ Cardinality(Idx(t, "post")) = 1
                   ELSE
                       /\ Len(a) >= 2 /\ a[2].e = "fetch"
                       /\ CountIn(a, "fetch") = 1
                       /\ Len(a) >= 3 =>
                             IF a[3].e = "stored"
                             THEN /\ Len(a) >= 4 /\ a[4].e = "post"
                                  /\ Cardinality(Idx(t, "post")) = 2
                             ELSE /\ Cardinality(Idx(t, "post")) = 1
                                  /\ pc[t] = "done"

C3_Witness ==
    \E t \in Tasks :
        /\ pc[t] = "done" /\ HasResp(t)
        /\ ev[t][FirstResp(t)].code = INVALID_TOKEN
        /\ CountIn(AfterFirstResp(t), "stored") = 1
        /\ Cardinality(Idx(t, "post")) = 2
        /\ result[t].kind = "response"

\* C4 (as claimed): the first send on a freshly constructed agent makes exactly
\* one token request, completed before its first POST.
C4_FirstSendFetchesExactlyOnce ==
    \A t \in Tasks :
        SawAbsent(t) =>
            /\ CountIn(ev[t], "fetch") <= 1
            /\ HasPost(t) => RefreshedBeforePost(t)
            /\ pc[t] = "done" => CountIn(ev[t], "fetch") = 1

\* C4 (amended): until a token request succeeds the credential is as
\* constructed (value none, issued_at the epoch, lifetime 7200 s), and no token
\* request precedes the first call.  A send that finds the value absent issues
\* its first POST only after exactly one token request of its own, answered
\* errcode 0; it makes a second token request only as the forced refresh after
\* a first POST answered 40014, and none when its refresh is rate-limited.
C4_AbsentSendFetchesBeforePost ==
    /\ issued = 0 =>
          /\ access_token.value = NoToken
          /\ access_token.timestamp = 0
          /\ access_token.lifetime = 7200 * TicksPerSec
    /\ calls = 0 => issued = 0 /\ \A t \in Tasks : ev[t] = <<>>
    /\ \A t \in Tasks :
          SawAbsent(t) =>
              /\ HasPost(t) => RefreshedBeforePost(t)
              /\ CountIn(ev[t], "fetch") <= 2
              /\ \A i \in Idx(t, "fetch") :
                    i > 2 => /\ HasResp(t) /\ FirstResp(t) < i
                             /\ ev[t][FirstResp(t)].code = INVALID_TOKEN
              /\ CountIn(ev[t], "limited") > 0 =>
                    IF HasResp(t) THEN CountIn(AfterFirstResp(t), "fetch") = 0
                    ELSE CountIn(ev[t], "fetch") = 0

C4_Witness ==
    \E t \in Tasks :
        /\ SawAbsent(t) /\ pc[t] = "done" /\ RefreshedBeforePost(t)
        /\ CountIn(ev[t], "fetch") = 1
        /\ result[t] = Response(0)

\* C5 (as claimed): two token requests made by calls of update_token(b) are at
\* least b seconds apart: a call made less than b seconds after the previous
\* one returns RateLimited and makes no request.
C5_FetchAttemptsBackoffApart ==
    \A t, u \in Tasks :
        \A i \in Idx(t, "fetch"), j \in Idx(u, "fetch") :
            (/\ <<t, i>> # <<u, j>>
             /\ ev[t][i].tok = ev[u][j].tok
             /\ ev[t][i].code <= ev[u][j].code)
            => ev[u][j].code - ev[t][i].code >= ev[t][i].tok * TicksPerSec

\* C6: the credential triple changes only in the step in which a token request
\* is answered errcode 0, and then to (that token, the time of the answer, its
\* expires_in); a refresh that ends in RateLimited, a vendor rejection or a
\* transport error leaves the triple as it was.
C6_TripleChangesOnlyOnSuccess ==
    [][ /\ access_token' # access_token =>
             \E t \in Tasks :
                 /\ pc[t] = "u_fetch"
                 /\ Len(ev'[t]) > Len(ev[t])
                 /\ ev'[t][Len(ev[t]) + 1].e = "stored"
                 /\ access_token'.value = ev'[t][Len(ev[t]) + 1].tok
                 /\ access_token'.timestamp = now'
                 /\ access_token'.lifetime = ev'[t][Len(ev[t]) + 1].code * TicksPerSec
        /\ \A t \in Tasks :
             (/\ pc[t] \in {"u_lock", "u_fetch"}
              /\ Len(ev'[t]) > Len(ev[t])
              /\ ev'[t][Len(ev'[t])].e \in RefreshFailures)
             => access_token' = access_token
      ]_vars

\* A refresh was rejected by the vendor while a credential was cached.
C6_Witness ==
    \E t \in Tasks :
        /\ pc[t] = "done"
        /\ result[t] = VendorRejected(40001)
        /\ access_token.value # NoToken
        /\ access_token.value = lastStored.tok
        /\ access_token.timestamp = lastStored.at

\* C7: a credential fetched at time t with lifetime L is usable (value present
\* and not expired) at every time before t + L and at no time from t + L on;
\* the credential holds nothing but value, timestamp and lifetime.
C7_UsableWithinLifetime ==
    /\ DOMAIN access_token = {"value", "timestamp", "lifetime"}
    /\ lastStored.tok # NoToken =>
          /\ now >= lastStored.at
          /\ (access_token.value # NoToken /\ ~expired(access_token, now))
               <=> (now < lastStored.at + lastStored.life * TicksPerSec)

\* The clock reads exactly t + L.
C7_Witness ==
    /\ lastStored.tok # NoToken
    /\ now = lastStored.at + lastStored.life * TicksPerSec
    /\ expired(access_token, now)

C9_ExpiringSendRefreshes ==
    \A t \in Tasks :
        SawExpiring(t) =>
            /\ pc[t] # "panicked"
            /\ HasPost(t) => RefreshedBeforePost(t)

\* C10: when a refresh called by send fails, send is over with that error as
\* its result and the failure is the last thing it did: no POST follows it,
\* and no POST was made at all when it was the refresh before the first POST.
C10_RefreshFailureEndsSend ==
    \A t \in Tasks :
        \A i \in 1..Len(ev[t]) :
            (ret[t] # "top" /\ ev[t][i].e \in RefreshFailures) =>
                /\ i = Len(ev[t])
                /\ pc[t] = "done"
                /\ result[t] =
                      CASE ev[t][i].e = "limited" -> RateLimited(ev[t][i].code)
                        [] ev[t][i].e = "rejected" -> VendorRejected(ev[t][i].code)
                        [] ev[t][i].e = "fetch_failed" -> TransportError
                /\ ret[t] = "pre" => ~HasPost(t)
                /\ ret[t] = "forced" => Cardinality(Idx(t, "post")) = 1

\* The forced refresh of a send was rejected by the vendor.
C10_Witness ==
    \E t \in Tasks :
        /\ ret[t] = "forced" /\ pc[t] = "done"
        /\ ev[t][Len(ev[t])].e = "rejected"
        /\ result[t] = VendorRejected(40001)

\* C11: when the first POST of a send is answered with an errcode other than
\* 40014, zero or not, the step that receives the answer ends the call with
\* that response as its Ok result and leaves the credential as it was; the
\* answer is the last thing the call did, so no refresh and no second POST
\* follow it.
C11_OtherCodesAreReturned ==
    /\ [](\A t \in Tasks :
            (HasResp(t) /\ ev[t][FirstResp(t)].code # INVALID_TOKEN) =>
                /\ FirstResp(t) = Len(ev[t])
                /\ pc[t] = "done"
                /\ result[t] = Response(ev[t][FirstResp(t)].code)
                /\ Cardinality(Idx(t, "post")) = 1)
    /\ [][\A t \in Tasks :
            (/\ pc[t] = "s_post1"
             /\ Len(ev'[t]) = Len(ev[t]) + 1
             /\ ev'[t][Len(ev'[t])].e = "resp"
             /\ ev'[t][Len(ev'[t])].code # INVALID_TOKEN)
            => /\ access_token' = access_token
               /\ pc'[t] = "done"
               /\ result'[t] = Response(ev'[t][Len(ev'[t])].code)]_vars

\* A send was answered with a non-zero errcode other than 40014.
C11_Witness ==
    \E t \in Tasks :
        /\ pc[t] = "done" /\ HasResp(t)
        /\ result[t] = Response(60020)
        /\ FirstResp(t) = Len(ev[t])
        /\ access_token.value = ev[t][FirstPost(t)].tok

\* C12: a call makes at most two POSTs and at most two refresh calls; the
\* answer to the second POST, whatever its errcode (40014 included), is the
\* last thing the call does and is its result, not the first answer; and, the
\* lock being granted and every network call returning, every call in progress
\* comes to an end (by returning, or by the panic of C2): from some point on
\* no task is inside a call.
C12_RetryDepthOne ==
    /\ [](\A t \in Tasks :
            /\ Cardinality(Idx(t, "post")) <= 2
            /\ Cardinality(Idx(t, "check")) <= 2
            /\ Cardinality(Idx(t, "fetch")) <= 2
            /\ Cardinality(Idx(t, "resp")) <= 2
            /\ Cardinality(Idx(t, "resp")) = 2 =>
                  /\ Greatest(Idx(t, "resp")) = Len(ev[t])
                  /\ ev[t][FirstResp(t)].code = INVALID_TOKEN
                  /\ pc[t] = "done"
                  /\ result[t] = Response(ev[t][Len(ev[t])].code))
    /\ <>[](\A t \in Tasks : Free(t))

\* The retried POST was answered 40014 again and that answer was returned.
C12_Witness ==
    \E t \in Tasks :
        /\ pc[t] = "done"
        /\ Cardinality(Idx(t, "resp")) = 2
        /\ Cardinality(Idx(t, "check")) = 2
        /\ result[t] = Response(INVALID_TOKEN)

\* C13: a transport error at either POST of a send is the last thing the call
\* does: the call is over with that error as its result, and neither a POST nor
\* a refresh follows the failure.
C13_PostTransportErrorIsTerminal ==
    \A t \in Tasks :
        \A i \in Idx(t, "post_failed") :
            /\ i = Len(ev[t])
            /\ ev[t][i - 1].e = "post"
            /\ pc[t] = "done"
            /\ result[t] = TransportError
            /\ Cardinality(Idx(t, "post_failed")) = 1

\* The retried POST failed in transport.
C13_Witness ==
    \E t \in Tasks :
        /\ pc[t] = "done"
        /\ Cardinality(Idx(t, "post")) = 2
        /\ ev[t][Len(ev[t])].e = "post_failed"
        /\ result[t] = TransportError

\* ------------------------------------------------- reading the payload
\* The names joined in order with '|' between them.
RECURSIVE Joined(_)
Joined(names) ==
    IF names = <<>> THEN <<>>
    ELSE IF Len(names) = 1 THEN names[1]
    ELSE Joined(SubSeq(names, 1, Len(names) - 1)) \o <<"|">> \o names[Len(names)]
\* A string with a separator at neither end.
NoEdgeSeparator(s) == s = <<>> \/ (s[1] # "|" /\ s[Len(s)] # "|")
\* A name that is not empty and holds no separator.
Plain(name) == name # <<>> /\ \A i \in 1..Len(name) : name[i] # "|"
AllPlain(names) == \A i \in 1..Len(names) : Plain(names[i])
Recipients == {"users", "groups", "tags"}
\* The vendor's name of each message type.
VendorName ==
    [Text |-> "text", Image |-> "image", Audio |-> "voice", Video |-> "video",
     File |-> "file", TextCard |-> "textcard", News |-> "news",
     Markdown |-> "markdown"]
\* The payload's field for each value given to the builder.
GivenField(k) ==
    CASE k = "touser" ->
           JsonString(IF builder.users.is_some THEN Joined(given.users) ELSE <<>>)
      [] k = "toparty" ->
           JsonString(IF builder.groups.is_some THEN Joined(given.groups) ELSE <<>>)
      [] k = "totag" ->
           JsonString(IF builder.tags.is_some THEN Joined(given.tags) ELSE <<>>)
      [] k = "msgtype" -> JsonString(VendorName[given.content.msg_type])
      [] k = "agentid" -> JsonNumber(given.agent_id)
      [] k = "safe" -> JsonNumber(given.safe)
      [] k = "enable_id_trans" -> JsonNumber(given.enable_id_trans)
      [] k = "enable_duplicate_check" -> JsonNumber(given.enable_duplicate_check)
      [] k = "duplicate_check_interval" -> JsonNumber(given.duplicate_check_interval)
PayloadFields ==
    {"touser", "toparty", "totag", "msgtype", "agentid", "safe", "enable_id_trans",
     "enable_duplicate_check", "duplicate_check_interval"}

C15_ExpireInIsExpiresWithin ==
    \A n \in {SendBackoff, ProactiveWindow} :
        LET remaining == access_token.timestamp + access_token.lifetime - now
        IN  /\ expire_in(access_token, now, n) # "panic"
            /\ expire_in(access_token, now, n) = "true"
                 <=> /\ access_token.value # NoToken
                     /\ remaining > 0
                     /\ remaining < n * TicksPerSec

\* C16: at most one token request is in flight at any moment, made by the
\* holder of the write lock; the credential is always a whole triple, the
\* constructed one or the one the last successful request stored; and a reader
\* (send's freshness check, send's URL composition) reads while no refresh
\* holds the lock and gets the triple cached at that moment.
C16_OneFetchInFlightWholeTriple ==
    /\ [](/\ Cardinality({t \in Tasks : pc[t] = "u_fetch"}) <= 1
          /\ \A t \in Tasks : pc[t] = "u_fetch" <=> writer = t
          /\ access_token =
                IF issued = 0 THEN AccessToken_default
                ELSE update(lastStored.tok, lastStored.at, from_secs(lastStored.life)))
    /\ [][\A t \in Tasks :
            /\ seen'[t] # seen[t] /\ seen'[t] # NoSeen =>
                  /\ writer = 0
                  /\ access_token' = access_token
                  /\ update(seen'[t].value, seen'[t].timestamp, seen'[t].lifetime)
                        = access_token
            /\ url'[t] # url[t] /\ url'[t] # NoToken =>
                  /\ writer = 0
                  /\ access_token' = access_token
                  /\ url'[t] = access_token.value]_vars

\* A send that read a stored credential waits for the lock while another
\* task's token request is in flight.
C16_Witness ==
    \E t, u \in Tasks :
        /\ pc[t] = "u_fetch" /\ writer = t
        /\ pc[u] = "u_lock"
        /\ issued > 0
        /\ seen[u].value # NoToken

\* C17: a refresh makes its backoff check when it has the lock, against the
\* timestamp of the last successful token request.  A token request in flight
\* with backoff b was issued at least b seconds after that request completed;
\* a backoff check is followed at once by the token request or by the return of
\* RateLimited, and a refresh that returned RateLimited found less than b whole
\* seconds elapsed, carries them in its error and made no token request.
C17_BackoffCheckedUnderLock ==
    \A t \in Tasks :
        /\ (pc[t] = "u_fetch" /\ issued > 0) =>
              LET fetch == ev[t][Len(ev[t])]
              IN  /\ fetch.e = "fetch"
                  /\ fetch.tok = backoff[t]
                  /\ fetch.code - lastStored.at >= backoff[t] * TicksPerSec
        /\ \A i \in Idx(t, "check") :
              /\ Len(ev[t]) > i
              /\ ev[t][i + 1].e \in {"fetch", "limited"}
              /\ ev[t][i + 1].e = "fetch" => ev[t][i].code >= ev[t][i].tok
              /\ ev[t][i + 1].e = "limited" =>
                    /\ ev[t][i].code < ev[t][i].tok
                    /\ ev[t][i + 1].code = ev[t][i].code
                    /\ Len(ev[t]) = i + 1
                    /\ pc[t] = "done"
                    /\ result[t] = RateLimited(ev[t][i].code)
                    /\ issued > 0

\* Two sends found no credential; one fetched and stored a token, the other
\* then got the lock within the backoff and returned RateLimited.
C17_Witness ==
    \E t, u \in Tasks :
        /\ t # u
        /\ SawAbsent(t) /\ SawAbsent(u)
        /\ CountIn(ev[t], "stored") = 1
        /\ CountIn(ev[u], "fetch") = 0
        /\ pc[u] = "done"
        /\ result[u].code = RATE_LIMITED

\* The vendor has answered every token request and every POST with errcode 0.
VendorAllOk ==
    \A t \in Tasks :
        \A i \in 1..Len(ev[t]) :
            /\ ev[t][i].e \notin {"rejected", "fetch_failed", "post_failed"}
            /\ ev[t][i].e = "resp" => ev[t][i].code = 0

\* C18 (as claimed): when every task calls send on a freshly constructed agent
\* before any token is stored and the vendor answers every request with
\* errcode 0, no send aborts and every send that is over has posted and
\* returned the vendor's response.
C18_ConcurrentSendsAllSucceed ==
    (/\ calls = Cardinality(Tasks)
     /\ \A t \in Tasks : SawAbsent(t)
     /\ VendorAllOk)
    => \A t \in Tasks :
          /\ pc[t] # "panicked"
          /\ pc[t] = "done" => (HasPost(t) /\ result[t] = Response(0))

\* C19: the value is absent exactly while no token request has succeeded, and
\* exactly while the timestamp is the epoch; value and timestamp are written in
\* the same step, that of a successful token request, and in no other; a value
\* that is present never becomes absent again.
C19_ValueAndTimestampTogether ==
    /\ [](/\ access_token.value = NoToken <=> issued = 0
          /\ access_token.value = NoToken <=> access_token.timestamp = 0)
    /\ [][/\ access_token.value # NoToken => access_token'.value # NoToken
          /\ IF issued' # issued
             THEN /\ access_token'.value = issued'
                  /\ access_token'.timestamp = now'
             ELSE /\ access_token'.value = access_token.value
                  /\ access_token'.timestamp = access_token.timestamp]_vars

\* A second token request has succeeded and replaced the first credential.
C19_Witness ==
    /\ issued = 2
    /\ access_token.value = 2
    /\ access_token.timestamp = lastStored.at
    /\ access_token.timestamp > from_secs(StartTime)

\* C20: a send that is about to compose the request URL finds a value cached;
\* every POST carries a token; and a send that panicked did so in its
\* freshness check with a value cached, never at the expect of the URL.
C20_UrlComposedWithValue ==
    \A t \in Tasks :
        /\ pc[t] = "s_url" => access_token.value # NoToken
        /\ \A i \in Idx(t, "post") : ev[t][i].tok # NoToken
        /\ pc[t] = "panicked" => (ev[t] = <<>> /\ seen[t].value # NoToken)

\* A send on a fresh agent is about to compose its URL after its refresh.
C20_Witness ==
    \E t \in Tasks :
        /\ pc[t] = "s_url"
        /\ SawAbsent(t)
        /\ CountIn(ev[t], "stored") = 1

====
